---- MODULE Spec2Model ----
(***************************************************************************)
(* Model of the amber_electric client: the transport layer                 *)
(* (protocol/protocol.py: Protocol, its backoff.on_exception retry loop    *)
(* around Protocol.__request), the sign-in function (auth/auth.py) and     *)
(* the exception classes (exceptions.py).                                  *)
(*                                                                         *)
(* One caller drives the transport (spec section 5: single-writer          *)
(* discipline), so a call runs to completion before the next one starts.   *)
(* A call that issues an HTTP request spans several steps: one step per    *)
(* attempt of the retry loop and one per backoff sleep.                    *)
(*                                                                         *)
(* The domain layer has specifications of its own: SpecPeriod for the      *)
(* settlement periods (market/market.py: Market.current_period and         *)
(* VariablePeriod), SpecMarket for the Market object (update() and the     *)
(* postcode and price accessors, with geocode/geocode.py as the source of  *)
(* addresses) and SpecPrice for Price.update() and Usage.update()          *)
(* (price/price.py, usage/usage.py) running on the transport's retry loop. *)
(***************************************************************************)
EXTENDS Integers, Sequences, FiniteSets, TLC

\* ---------------------------------------------------------------------
\* Bounds of the model
\* ---------------------------------------------------------------------
\* longest run of retryable responses the server sends before its final one
MaxRun == 2
\* seconds an HTTP attempt takes: a prompt answer, and a connection that
\* hangs (the HTTP session sets no timeout)
FastReq == 60
SlowReq == 300
\* the jitter of a backoff wait is drawn at the fractions j/JitterParts,
\* j = 0 .. JitterParts, of the wait value
JitterParts == 1
\* longest list of period records in a prices/listprices body
MaxRecords == 1
\* longest "forecastPrices" list a snapshot is built from on its own
MaxForecasts == 3
\* datetime.now() is sampled in the half hours 0 .. MaxHalfHours
MaxHalfHours == 2
\* longest list of period records in one answer to Market.update()
MaxBatch == 2
\* most calls of poll_for_updates() on one client
MaxPolls == 3

\* ---------------------------------------------------------------------
\* Program constants
\* ---------------------------------------------------------------------
\* protocol.py:157  max_time=300
MaxTime == 300
\* market.py:103  delta = timedelta(minutes=30), in milliseconds
HalfHour == 1800000
\* market.py:16  _NEM_SETTLEMENT_PERIOD = timedelta(minutes=30)
NEM_SETTLEMENT_PERIOD == 1800000
\* market.py:18  _TAX_GST_OFFSET = 0.1, in tenths
TAX_GST_OFFSET_TENTHS == 1

\* Python's None where a string may stand (credentials, tokens, header values)
None == "None"

\* a key of a JSON object: not in the payload, or in it with value v
Absent == [kind |-> "absent"]
Present(v) == [kind |-> "present", v |-> v]
\* an attribute of an object: never assigned, assigned None, assigned v
Unset == [kind |-> "unset"]
PyNone == [kind |-> "None"]
Value(v) == [kind |-> "value", v |-> v]

\* ---------------------------------------------------------------------
\* Values the environment supplies
\* ---------------------------------------------------------------------
\* username / password: not supplied, empty, non-empty
CredValues == {None, "", "user"}

\* token fields of the sign-in payload; None stands for an absent field
IdTokens == {None, "idA", "idB"}
RefreshTokens == {None, "", "rfA"}

\* what response.json() gives: None when the body does not parse, the empty
\* object, an object without "data", an object with "data"
NoBody == [kind |-> "none"]
EmptyObject == [kind |-> "empty"]
NoData == [kind |-> "nodata"]
DataBodies == {[kind |-> "data", idToken |-> i, refreshToken |-> r] :
                 i \in IdTokens, r \in RefreshTokens}
Bodies == {NoBody, EmptyObject, NoData} \cup DataBodies

\* the server's answers to one attempt: the HTTP call raises (no response
\* object), or a response with a status code and a body
NetworkFailure == [kind |-> "neterr"]
HttpResponse(s, b) == [kind |-> "http", status_code |-> s, body |-> b]
ErrorStatuses == {400, 401, 403, 404, 499, 500, 503}
FinalResponses == {HttpResponse(200, b) : b \in Bodies}
                    \cup {HttpResponse(204, NoBody)}
                    \cup {HttpResponse(s, NoBody) : s \in ErrorStatuses}
                    \cup {NetworkFailure}
\* responses a retry policy is expected to retry
TransientResponses == {HttpResponse(503, NoBody)}

RECURSIVE RunsUpTo(_)
RunsUpTo(n) ==
    IF n = 0 THEN {<<>>}
    ELSE LET shorter == RunsUpTo(n - 1)
         IN  shorter \cup {Append(r, t) : r \in {q \in shorter : Len(q) = n - 1},
                                          t \in TransientResponses}

\* a script: a run of transient responses, then the final response, which
\* the server keeps giving for as long as it is asked
Scripts == {Append(r, f) : r \in RunsUpTo(MaxRun), f \in FinalResponses}

\* ---------------------------------------------------------------------
\* State
\* ---------------------------------------------------------------------
VARIABLES
    username,   \* Protocol.__username
    password,   \* Protocol.__password
    auth,       \* Protocol.__auth
    session,    \* Protocol.__session
    created,    \* requests.session() objects made since __session was last
                \* set to None (by __init__, logout() or auth())
    pc,         \* where the caller is: "idle", "running" (an attempt of
                \* __request is about to run), "sleeping" (backoff's
                \* time.sleep), "done" (the call is over, its result or
                \* exception is on its way to the caller)
    op,         \* the call in progress or last completed
    args,       \* the arguments auth.auth() was called with in that call
    before,     \* __auth and __session as that call found them
    path,       \* the endpoint of that call's request
    script,     \* what the server answers to this and the next attempts
    tries,      \* backoff's tries: attempts of __request started in this call
    now,        \* seconds since backoff's start
    elapsed,    \* backoff's elapsed: now, as read when the last attempt began
    seconds,    \* the backoff wait being slept
    sent,       \* the HTTP request the last attempt handed to session.request
    lastError,  \* the exception the last attempt of __request raised
    outcome,    \* what the last completed call gave its caller
    market,     \* the Market object: its private fields
    clock,      \* datetime.now(), in milliseconds since datetime.min
    mresult,    \* the last call made on the market layer and what it gave
    price,      \* the Price object: its private fields
    apicalls,   \* api_post calls the update() in progress has made
    client      \* the AmberElectric object, its polling tasks and what its
                \* last call gave

transport == <<username, password, auth, session, created, pc, op, args,
               before, path, script, tries, now, elapsed, seconds, sent,
               lastError, outcome>>
domain == <<market, clock, mresult>>
mappers == <<price, apicalls>>
vars == <<transport, domain, mappers, client>>

\* ---------------------------------------------------------------------
\* exceptions.py
\* ---------------------------------------------------------------------
NoResponse == [kind |-> "none"]
NoError == [type |-> "none"]

\* AmberElectricAPIError(message, response, exception); attempt names the
\* attempt of __request that created the object (0: not created by __request)
AmberElectricAPIError(message, response, exception, attempt) ==
    [type |-> "AmberElectricAPIError", message |-> message,
     response |-> response, exception |-> exception, attempt |-> attempt]

AmberElectricAuthenticationFailed(message) ==
    [type |-> "AmberElectricAuthenticationFailed", message |-> message,
     response |-> NoResponse, exception |-> None, attempt |-> 0]

\* the interpreter's own exceptions
BuiltinError(type, attempt) ==
    [type |-> type, message |-> None, response |-> NoResponse,
     exception |-> None, attempt |-> attempt]

\* ---------------------------------------------------------------------
\* auth/auth.py
\* ---------------------------------------------------------------------
\* class Auth: the id_token and refresh_token properties of Auth(payload)
Auth(amber_payload) ==
    IF amber_payload.kind = "data"
    THEN [kind |-> "Auth", id_token |-> amber_payload.idToken,
          refresh_token |-> amber_payload.refreshToken]
    ELSE [kind |-> "Auth", id_token |-> None, refresh_token |-> None]

\* the checks of auth() before it calls logout(): the error they raise, or
\* NoError.  __PROTOCOL, __USERNAME and __PASSWORD are locals of auth(),
\* bound only when the argument is not None.
AuthPrecheck(protocol, user, pass) ==
    IF protocol = None THEN BuiltinError("UnboundLocalError", 0)
    ELSE IF user = None THEN BuiltinError("UnboundLocalError", 0)
    ELSE IF user = "" THEN
        AmberElectricAPIError("No username and password available",
                              NoResponse, None, 0)
    ELSE IF pass = None THEN BuiltinError("UnboundLocalError", 0)
    ELSE IF pass = "" THEN
        AmberElectricAPIError("No username and password available",
                              NoResponse, None, 0)
    ELSE NoError

\* `not auth_response` on the JSON the sign-in request returned
Falsy(data) == data.kind \in {"none", "empty"}

\* ---------------------------------------------------------------------
\* protocol/protocol.py
\* ---------------------------------------------------------------------
AuthUnset == [kind |-> "unset"]   \* __init__ never assigns self.__auth
AuthNone == [kind |-> "none"]     \* logout() assigned None

NotSent == [kind |-> "notsent"]
NoArgs == [kind |-> "none"]
NoOutcome == [kind |-> "none"]
Returned(v) == [kind |-> "returned", value |-> v]
Raised(e) == [kind |-> "raised", error |-> e]

\* getattr(self.__auth, name, None) for an assigned self.__auth
TokenOf(authv, name) ==
    IF authv.kind = "Auth"
    THEN IF name = "id_token" THEN authv.id_token ELSE authv.refresh_token
    ELSE None

\* `if id_token:` / `if refresh_token:`
Truthy(str) == str # None /\ str # ""

\* variant: the RefreshToken header filled from id_token
Outgoing_copied(authv, endpoint) ==
    [kind |-> "sent", path |-> endpoint,
     Authorization |-> IF Truthy(TokenOf(authv, "id_token"))
                       THEN TokenOf(authv, "id_token") ELSE None,
     RefreshToken |-> IF Truthy(TokenOf(authv, "refresh_token"))
                      THEN TokenOf(authv, "id_token") ELSE None]

\* the request handed to session.request: a header that is not attached
\* reads None
Outgoing(authv, endpoint) ==
    [kind |-> "sent", path |-> endpoint,
     Authorization |-> IF Truthy(TokenOf(authv, "id_token"))
                       THEN TokenOf(authv, "id_token") ELSE None,
     RefreshToken |-> IF Truthy(TokenOf(authv, "refresh_token"))
                      THEN TokenOf(authv, "refresh_token") ELSE None]

\* variant: 401/403 raised with the message of the general branch
AccessDenied_general(resp, n) ==
    AmberElectricAPIError("Amber Electric API Error", resp, None, n)

\* the error __request raises for a 401 or 403 response
AccessDenied(resp, n) ==
    AmberElectricAPIError("Amber Electric API Access Denied", resp, None, n)

\* one invocation of Protocol.__request, the n-th of the call, against the
\* server's answer resp
Request(authv, endpoint, resp, n) ==
    IF authv = AuthUnset
    THEN [out |-> Raised(BuiltinError("AttributeError", n)), sent |-> NotSent]
    ELSE LET msg == Outgoing(authv, endpoint) IN
         IF resp.kind = "neterr"
         THEN [out |-> Raised(AmberElectricAPIError(
                          "Unkown error from Amber Electric API",
                          NoResponse, "err", n)),
               sent |-> msg]
         ELSE IF resp.status_code = 401 \/ resp.status_code = 403
         THEN [out |-> Raised(AccessDenied(resp, n)), sent |-> msg]
         ELSE IF ~(200 <= resp.status_code /\ resp.status_code <= 299)
         THEN [out |-> Raised(AmberElectricAPIError(
                          "Amber Electric API Error", resp, None, n)),
               sent |-> msg]
         ELSE [out |-> Returned(resp.body), sent |-> msg]

\* fatal_code(e) raises AttributeError when e.response is None
FatalCodeRaises(e) == e.response.kind = "none"

\* variant: no upper end of the fatal range
fatal_code_open(e) == 400 <= e.response.status_code

\* variant: the lower end of the fatal range excluded
fatal_code_above(e) ==
    400 < e.response.status_code /\ e.response.status_code < 500

\* fatal_code(e), for an e that carries a response
fatal_code(e) ==
    400 <= e.response.status_code /\ e.response.status_code < 500

\* backoff.fibo: the n-th value of 1, 1, 2, 3, 5, ...; the generator is not
\* followed beyond the first value that reaches MaxTime, since the wait is
\* min(jitter, max_time - elapsed)
RECURSIVE FiboFrom(_, _, _)
FiboFrom(n, a, b) ==
    IF n <= 1 \/ a >= MaxTime THEN a ELSE FiboFrom(n - 1, b, a + b)

fibo(n) == FiboFrom(n, 1, 1)

Min(a, b) == IF a <= b THEN a ELSE b

\* backoff's _next_wait after the n-th failure: full jitter over the
\* generator's value, never longer than what is left of max_time
NextWait(n, j, spent) ==
    Min((fibo(n) * j) \div JitterParts, MaxTime - spent)

\* variant: max_time counts as spent only once elapsed is beyond it
OnException_beyond(out, spent) ==
    IF out.kind = "returned" THEN [do |-> "return", out |-> out]
    ELSE IF out.error.type \notin {"AmberElectricAPIError",
                                   "AmberElectricAuthenticationFailed"}
    THEN [do |-> "raise", out |-> out]
    ELSE IF FatalCodeRaises(out.error)
    THEN [do |-> "raise",
          out |-> Raised(BuiltinError("AttributeError", out.error.attempt))]
    ELSE IF fatal_code(out.error) \/ spent > MaxTime
    THEN [do |-> "raise", out |-> out]
    ELSE [do |-> "sleep", out |-> out]

\* what backoff.on_exception does with the outcome of the n-th invocation:
\* "return", "raise" (with the error it lets through) or "sleep"
OnException(out, spent) ==
    IF out.kind = "returned" THEN [do |-> "return", out |-> out]
    ELSE IF out.error.type \notin {"AmberElectricAPIError",
                                   "AmberElectricAuthenticationFailed"}
    THEN [do |-> "raise", out |-> out]
    ELSE IF FatalCodeRaises(out.error)
    THEN [do |-> "raise",
          out |-> Raised(BuiltinError("AttributeError", out.error.attempt))]
    ELSE IF fatal_code(out.error) \/ spent >= MaxTime
    THEN [do |-> "raise", out |-> out]
    ELSE [do |-> "sleep", out |-> out]

\* auth.auth() after api_post came back: the Auth object, or the error
AuthResult(reqOut) ==
    IF reqOut.kind = "raised" THEN reqOut
    ELSE IF Falsy(reqOut.value)
    THEN Raised(AmberElectricAPIError(
             "No response to API authentication request", NoResponse, None, 0))
    ELSE Returned(Auth(reqOut.value))

\* Protocol.auth() after AmberAuth came back
ProtocolAuthResult(authOut) ==
    IF authOut.kind = "raised" THEN authOut
    ELSE IF authOut.value.kind # "Auth"
    THEN Raised(AmberElectricAuthenticationFailed(
             "Failed to authenticate with API"))
    ELSE authOut

\* `response and "data" in response`
HasData(response) == ~Falsy(response) /\ response.kind = "data"

\* what Price.update() and Usage.update() give once api_post is over: its
\* exception, None without a "data" envelope, else the object itself
MapperResult(reqOut) ==
    IF reqOut.kind = "raised" THEN reqOut
    ELSE IF ~HasData(reqOut.value) THEN Returned(PyNone)
    ELSE Returned(Value("self"))

\* what the call gives its caller once its request is over
CallResult(operation, reqOut) ==
    IF operation = "Protocol.auth" THEN ProtocolAuthResult(AuthResult(reqOut))
    ELSE IF operation = "auth" THEN AuthResult(reqOut)
    ELSE IF operation \in {"Price.update", "Usage.update"}
    THEN MapperResult(reqOut)
    ELSE reqOut

\* __session = None
NoSession == [kind |-> "None"]
\* the headers __get_session() sets on a new session
session_headers ==
    [UserAgent |-> "_USER_AGENT", Referer |-> "_REFRENCE",
     Origin |-> "_FORCE_ORIGIN", ContentType |-> "application/json"]
\* requests.session() with the headers set
NewSession == [kind |-> "Session", headers |-> session_headers]

\* variant: logout() that drops the HTTP session and keeps the tokens
logout_session_only(authv, sess) == [auth |-> authv, session |-> NoSession]

\* Protocol.logout(): the values it leaves in __auth and __session
logout(authv, sess) == [auth |-> AuthNone, session |-> NoSession]

\* variant: __get_session() that builds a session object on every call
GetSession_always(sess) == [session |-> NewSession, made |-> 1]

\* Protocol.__get_session(): the session object in __session afterwards and
\* the number of objects requests.session() made for it
GetSession(sess) ==
    IF sess # NoSession
    THEN [session |-> sess, made |-> 0]
    ELSE [session |-> NewSession, made |-> 1]

\* ---------------------------------------------------------------------
\* market/market.py: times and settlement periods
\* ---------------------------------------------------------------------
\* Times are instants in milliseconds; datetime.min is the origin of the
\* alignment current_period computes.  Parsing a "period" string with the
\* NEM offset and taking .timestamp() give the instant the string names.
datetime_min == 0
Millisecond == 1

\* the instants datetime.now() is sampled at: the offsets below into each
\* of the half hours 0 .. MaxHalfHours
ClockOffsets == {0, 1, HalfHour \div 2, HalfHour - 1}
Clocks == {k * HalfHour + o : k \in 0..MaxHalfHours, o \in ClockOffsets}

\* variant: the boundary after now, also when now is on a boundary
current_period_next(nowv) ==
    nowv + HalfHour - ((nowv - datetime_min) % HalfHour)

\* variant: now rounded down to the 30-minute boundary
current_period_floor(nowv) == nowv - ((nowv - datetime_min) % HalfHour)

\* Market.current_period for datetime.now() = nowv; Python's % on
\* timedeltas gives a remainder in [0, delta), as % does here
current_period(nowv) == nowv + ((datetime_min - nowv) % HalfHour)

\* "periodSource" values: <digits><unit> and a text the pattern rejects
PeriodSource(n, unit) == [kind |-> "code", n |-> n, unit |-> unit]
UnmatchedSource == [kind |-> "text"]
PeriodSources ==
    {PeriodSource(30, "MIN"), PeriodSource(5, "MIN"), PeriodSource(1, "HOUR"),
     UnmatchedSource}

\* milliseconds in the units _RE_AMBER_PERIOD_TYPE knows
UnitMs(unit) ==
    CASE unit = "SEC" -> 1000
      [] unit = "MIN" -> 60000
      [] unit = "HOUR" -> 3600000
      [] unit = "DAY" -> 86400000

\* the timedelta VariablePeriod.__init__ stores in __period_delta, which it
\* assigns only when the pattern matches
PeriodDelta(source) ==
    IF source.kind = "code"
    THEN Value(source.n * UnitMs(source.unit))
    ELSE Unset

\* a record of "variablePricesAndRenewables"
VariablePayload(period, source, wholesale) ==
    [period |-> period, periodSource |-> source, wholesaleKWHPrice |-> wholesale]

\* VariablePeriod(price_payload): the object built, or the exception raised
VariablePeriod(price_payload) ==
    IF price_payload.period = Absent
    THEN Raised(BuiltinError("AttributeError", 0))
    ELSE IF price_payload.periodSource = Absent
    THEN Raised(BuiltinError("KeyError", 0))
    ELSE Returned(
        [kind |-> "VariablePeriod",
         period_delta |-> PeriodDelta(price_payload.periodSource.v),
         period_end |-> price_payload.period.v,
         wholesale_kwh_price |->
            IF price_payload.wholesaleKWHPrice = Absent
            THEN PyNone
            ELSE Value(price_payload.wholesaleKWHPrice.v)])

\* variant: the period start taken from the record's own duration
period_start_own(vp) ==
    IF vp.period_delta = Unset
    THEN vp.period_end - NEM_SETTLEMENT_PERIOD + Millisecond
    ELSE vp.period_end - vp.period_delta.v + Millisecond

\* VariablePeriod.period_start
period_start(vp) == vp.period_end - NEM_SETTLEMENT_PERIOD + Millisecond

\* VariablePeriod.ts: period_end.timestamp()
ts(vp) == vp.period_end

\* value / 100 / (1 + _TAX_GST_OFFSET): cents with GST to dollars without;
\* exact on the amounts of the model, which are multiples of 110
ExGst(cents) == (cents * 10) \div (100 * (10 + TAX_GST_OFFSET_TENTHS))

\* VariablePeriod.wholesale_kwh_price: the division of a stored None raises
\* TypeError, which the accessor does not catch
wholesale_kwh_price(vp) ==
    IF vp.wholesale_kwh_price = PyNone
    THEN Raised(BuiltinError("TypeError", 0))
    ELSE Returned(Value(ExGst(vp.wholesale_kwh_price.v)))

\* ---------------------------------------------------------------------
\* market/market.py: the Market object
\* ---------------------------------------------------------------------
\* PriceData(price_payload), the class of E1 and B1: a field is assigned
\* only when its key is in the payload
StaticPayload(fixed, loss) == [totalfixedKWHPrice |-> fixed, lossFactor |-> loss]
PriceData(price_payload) ==
    [kind |-> "PriceData",
     total_fixed_kwh_price |->
        IF price_payload.totalfixedKWHPrice = Absent
        THEN Unset ELSE Value(price_payload.totalfixedKWHPrice.v),
     loss_factor |->
        IF price_payload.lossFactor = Absent
        THEN Unset ELSE Value(price_payload.lossFactor.v)]

\* PriceData.total_fixed_kwh_price and PriceData.loss_factor: None on the
\* AttributeError of a field never assigned
total_fixed_kwh_price(pd) ==
    IF pd.total_fixed_kwh_price = Unset
    THEN PyNone ELSE Value(ExGst(pd.total_fixed_kwh_price.v))
loss_factor(pd) ==
    IF pd.loss_factor = Unset THEN PyNone ELSE pd.loss_factor

\* truth value of a float or None
TruthyNumber(x) == x # PyNone /\ x.v # 0

\* the dict __periods after the records of a list have been put in it, in
\* order, from the dict `periods`; a record whose constructor raises ends it
RECURSIVE PutPeriods(_, _)
PutPeriods(payloads, periods) ==
    IF payloads = <<>>
    THEN Returned(periods)
    ELSE LET built == VariablePeriod(Head(payloads)) IN
         IF built.kind = "raised"
         THEN built
         ELSE LET vp == built.value
                  key == ts(vp)
              IN  PutPeriods(Tail(payloads),
                      IF key # 0
                      THEN [k \in DOMAIN periods \cup {key} |->
                               IF k = key THEN vp ELSE periods[k]]
                      ELSE periods)

EmptyDict == [k \in {} |-> k]

\* VariablePeriodData(prices_payload): its __periods, or the exception
VariablePeriodData(prices_payload) ==
    IF prices_payload.variablePricesAndRenewables = Absent
    THEN Returned(EmptyDict)
    ELSE PutPeriods(prices_payload.variablePricesAndRenewables.v, EmptyDict)

\* VariablePeriodData.get_period
get_period(periods, period_ts) ==
    IF period_ts \in DOMAIN periods THEN Value(periods[period_ts]) ELSE PyNone

\* a reverse-geocoded Address: the two accessors Market reads
Address(pcode, country) ==
    [kind |-> "Address", postcode |-> pcode, country |-> country]

\* str.upper() on the country names of the model
Upper(country) ==
    CASE country = "Australia" -> "AUSTRALIA"
      [] country = "New Zealand" -> "NEW ZEALAND"
      [] OTHER -> country

\* int() of a postcode string of the model
IntOf(pcode) ==
    CASE pcode = "2000" -> 2000
      [] pcode = "0800" -> 800
      [] pcode = "1000" -> 1000
      [] OTHER -> 0

\* Market.__init__(protocol, postcode, latitude, longitude); hasPoint says
\* that latitude and longitude are both truthy
NewMarket(protocol, pcode, hasPoint) ==
    [protocol |-> protocol,
     postcode |-> IF pcode # None /\ pcode # ""
                  THEN Value(IntOf(pcode)) ELSE PyNone,
     address |-> PyNone,
     point |-> IF hasPoint THEN Value("Point") ELSE PyNone,
     variable |-> Unset,
     e1 |-> Unset,
     b1 |-> Unset]

\* the test `postcode and country.upper() == "AUSTRALIA"` on an address:
\* "yes", "no", or "raise" for the AttributeError of None.upper()
Suitable(address) ==
    IF address.postcode = None \/ address.postcode = ""
    THEN "no"
    ELSE IF address.country = None
    THEN "raise"
    ELSE IF Upper(address.country) = "AUSTRALIA" THEN "yes" ELSE "no"

\* Market.postcode
postcode(m) ==
    IF m.address = PyNone
    THEN Returned(m.postcode)
    ELSE CASE Suitable(m.address) = "yes" ->
                Returned(Value(IntOf(m.address.postcode)))
           [] Suitable(m.address) = "raise" ->
                Raised(BuiltinError("AttributeError", 0))
           [] OTHER -> Returned(m.postcode)

\* Market.current_variable at datetime.now() = nowv
current_variable(m, nowv) ==
    IF m.variable = Unset
    THEN Raised(BuiltinError("AttributeError", 0))
    ELSE Returned(get_period(m.variable.v, current_period(nowv)))

\* the last lines of usage_price and export_price, on a schedule that is
\* an object and the record of the current period
PriceFrom(schedule, variable_data) ==
    LET fixed_kwh_price == total_fixed_kwh_price(schedule)
        loss == loss_factor(schedule)
        wholesale == wholesale_kwh_price(variable_data)
    IN  IF wholesale.kind = "raised"
        THEN wholesale
        ELSE IF ~(/\ TruthyNumber(fixed_kwh_price)
                  /\ TruthyNumber(loss)
                  /\ TruthyNumber(wholesale.value))
        THEN Returned(PyNone)
        ELSE Returned(Value(fixed_kwh_price.v + loss.v * wholesale.value.v))

\* Market.usage_price at datetime.now() = nowv
usage_price(m, nowv) ==
    IF ~(m.e1 # Unset /\ m.variable # Unset)
    THEN Returned(PyNone)
    ELSE LET variable_data == current_variable(m, nowv).value IN
         IF variable_data = PyNone
         THEN Returned(PyNone)
         ELSE PriceFrom(m.e1.v, variable_data.v)

\* Market.export_price at datetime.now() = nowv: the guard reads self.e1,
\* the operands are read from self.b1, which is None when B1 was never set
export_price(m, nowv) ==
    IF ~(m.e1 # Unset /\ m.variable # Unset)
    THEN Returned(PyNone)
    ELSE LET variable_data == current_variable(m, nowv).value IN
         IF variable_data = PyNone
         THEN Returned(PyNone)
         ELSE IF m.b1 = Unset
         THEN Raised(BuiltinError("AttributeError", 0))
         ELSE PriceFrom(m.b1.v, variable_data.v)

\* exceptions.py: NoLocationError(message, address)
NoLocationError(message, address) ==
    [type |-> "NoLocationError", message |-> message, address |-> address]
\* geocode.py: OSMReverseFailed
OSMReverseFailed == [type |-> "OSMReverseFailed"]

\* the decimal digits of n, and f"{n:04}"
RECURSIVE Digits(_)
Digits(n) == IF n < 10 THEN <<n>> ELSE Append(Digits(n \div 10), n % 10)
RECURSIVE ZeroPad(_, _)
ZeroPad(digits, width) ==
    IF Len(digits) >= width THEN digits ELSE ZeroPad(<<0>> \o digits, width)
Format04(n) == ZeroPad(Digits(n), 4)

\* the POST Market.update() hands to the transport
ListPrices(pcode) ==
    [kind |-> "sent", method |-> "POST",
     url |-> "https://api.amberelectric.com.au/prices/listprices",
     json |-> [postcode |-> Format04(pcode)]]

\* a body of prices/listprices with "data"
MarketData(records, static) ==
    [kind |-> "data",
     data |-> [variablePricesAndRenewables |-> records, staticPrices |-> static]]

\* what a call of Market.update() leaves: the object, the outcome, the
\* request handed to the transport
Updated(m, out, request) == [market |-> m, out |-> out, request |-> request]

\* Market.update() from `self.__variable = ...` on: response["data"] stored
Store(m, periods, data) ==
    LET static == data.staticPrices IN
    [m EXCEPT
       !.variable = Value(periods),
       !.e1 = IF static # Absent /\ static.v.E1 # Absent
              THEN Value(PriceData(static.v.E1.v)) ELSE @,
       !.b1 = IF static # Absent /\ static.v.B1 # Absent
              THEN Value(PriceData(static.v.B1.v)) ELSE @]

\* Market.update() from `if not self.postcode` on.  The shipped Protocol
\* class has no attribute `raw`; resp is what the raw() of a transport that
\* has one gives.
UpdateFromPostcode(m, resp) ==
    LET pcode == postcode(m) IN
    IF pcode.kind = "raised"
    THEN Updated(m, pcode, NotSent)
    ELSE IF ~TruthyNumber(pcode.value)
    THEN Updated(m, Raised(NoLocationError("No postcode availabile", None)),
                 NotSent)
    ELSE IF m.protocol = "Protocol"
    THEN Updated(m, Raised(BuiltinError("AttributeError", 0)), NotSent)
    ELSE LET request == ListPrices(pcode.value.v) IN
         IF resp.kind = "raised"
         THEN Updated(m, resp, request)
         ELSE IF Falsy(resp.value) \/ resp.value.kind # "data"
         THEN Updated(m, Returned(PyNone), request)
         ELSE LET built == VariablePeriodData(resp.value.data) IN
              IF built.kind = "raised"
              THEN Updated(m, built, request)
              ELSE Updated(Store(m, built.value, resp.value.data),
                           Returned(Value("self")), request)

\* Market.update(); geo is what reverse_geocode gives when it is called.
\* The shipped Protocol class has no attribute `loop`, which the call of
\* reverse_geocode reads.
update(m, geo, resp) ==
    LET geocodes == m.point # PyNone /\ m.address = PyNone IN
    IF ~geocodes
    THEN UpdateFromPostcode(m, resp)
    ELSE IF m.protocol = "Protocol"
    THEN Updated(m, Raised(BuiltinError("AttributeError", 0)), NotSent)
    ELSE IF geo.kind = "raised"
    THEN Updated(m, geo, NotSent)
    ELSE LET held == [m EXCEPT !.address = geo.value] IN
         CASE Suitable(held.address) = "raise" ->
                Updated(held, Raised(BuiltinError("AttributeError", 0)), NotSent)
           [] Suitable(held.address) = "no" ->
                Updated(held,
                        Raised(NoLocationError("Address unsuitable", held.address)),
                        NotSent)
           [] OTHER -> UpdateFromPostcode(held, resp)

\* ---------------------------------------------------------------------
\* Values the environment supplies to the market layer
\* ---------------------------------------------------------------------
\* the transport handed to Market: the shipped Protocol, or an object that
\* also has `loop` and `raw`
Transports == {"Protocol", "Extended"}
ConfiguredPostcodes == {None, "1000"}
Addresses ==
    {Address("2000", "Australia"), Address(None, "Australia"),
     Address("2000", "New Zealand"), Address("2000", None)}
GeocodeResults == {Returned(a) : a \in Addresses} \cup {Raised(OSMReverseFailed)}

\* records of the settlement periods ending at the first two half hours,
\* and one without "period"
MarketRecords ==
    {VariablePayload(Present(k * HalfHour), Present(PeriodSource(30, "MIN")), w) :
        k \in 1..2, w \in {Absent, Present(0), Present(110)}}
    \cup {VariablePayload(Absent, Present(PeriodSource(30, "MIN")), Present(110))}
RECURSIVE ListsUpTo(_, _)
ListsUpTo(S, n) ==
    IF n = 0 THEN {<<>>}
    ELSE LET shorter == ListsUpTo(S, n - 1)
         IN  shorter \cup {Append(l, x) : l \in {q \in shorter : Len(q) = n - 1},
                                          x \in S}
StaticPayloads ==
    {StaticPayload(Present(220), Present(1)), StaticPayload(Present(330), Present(2)),
     StaticPayload(Absent, Present(1)), StaticPayload(Present(220), Absent)}
Schedules == {Absent} \cup {Present(p) : p \in StaticPayloads}
MarketBodies ==
    {NoBody, EmptyObject, NoData}
    \cup {MarketData(Present(l), Present([E1 |-> e, B1 |-> b])) :
            l \in ListsUpTo(MarketRecords, MaxRecords),
            e \in Schedules, b \in Schedules}
\* what raw() gives: a parsed body, or the error of the transport
TransportError == AmberElectricAPIError("Amber Electric API Error", NoResponse, None, 0)
RawResults == {Returned(b) : b \in MarketBodies} \cup {Raised(TransportError)}

\* records VariablePeriod is built from on its own: ends on the half hours
\* and on a 5-minute mark, every period source, with and without the key
PeriodEnds == {k * HalfHour : k \in 1..(MaxHalfHours + 1)}
                 \cup {HalfHour + 5 * UnitMs("MIN")}
PeriodPayloads ==
    {VariablePayload(Present(e), s, Present(110)) :
        e \in PeriodEnds, s \in {Absent} \cup {Present(c) : c \in PeriodSources}}

\* ---------------------------------------------------------------------
\* price/price.py and usage/usage.py
\* ---------------------------------------------------------------------
\* a record of "forecastPrices", and the "data" of Price/GetPriceList
ForecastPayload(period, kwh) == [period |-> period, priceKWH |-> kwh]
PricePayload(kwh, forecasts) ==
    [kind |-> "data", currentPriceKWH |-> kwh, forecastPrices |-> forecasts]

\* PriceData(price_payload) of price.py, the class of CurrentPrice and
\* ForecastPrice: the price and the period, None when the key is absent
CurrentPrice(price_payload) ==
    [kind |-> "CurrentPrice",
     price_kwh |-> IF price_payload.currentPriceKWH = Absent
                   THEN PyNone ELSE Value(price_payload.currentPriceKWH.v),
     period |-> PyNone]
ForecastPrice(forecast) ==
    [kind |-> "ForecastPrice",
     price_kwh |-> IF forecast.priceKWH = Absent
                   THEN PyNone ELSE Value(forecast.priceKWH.v),
     period |-> IF forecast.period = Absent
                THEN PyNone ELSE Value(forecast.period.v)]

\* the dict __prices after the forecasts of a list have been put in it: a
\* forecast without a period, or with timestamp 0, is left out
RECURSIVE PutForecasts(_, _)
PutForecasts(forecasts, prices) ==
    IF forecasts = <<>>
    THEN prices
    ELSE LET fp == ForecastPrice(Head(forecasts)) IN
         PutForecasts(Tail(forecasts),
             IF fp.period # PyNone /\ fp.period.v # 0
             THEN [k \in DOMAIN prices \cup {fp.period.v} |->
                      IF k = fp.period.v THEN fp ELSE prices[k]]
             ELSE prices)

\* variant: on a timestamp already in the dict the earlier forecast stays
RECURSIVE PutForecasts_first(_, _)
PutForecasts_first(forecasts, prices) ==
    IF forecasts = <<>>
    THEN prices
    ELSE LET fp == ForecastPrice(Head(forecasts)) IN
         PutForecasts_first(Tail(forecasts),
             IF fp.period # PyNone /\ fp.period.v # 0
                  /\ fp.period.v \notin DOMAIN prices
             THEN [k \in DOMAIN prices \cup {fp.period.v} |->
                      IF k = fp.period.v THEN fp ELSE prices[k]]
             ELSE prices)

\* variant: ForecastPrices whose dict keeps the first forecast of a timestamp
ForecastPrices_first(price_payload) ==
    [kind |-> "ForecastPrices",
     prices |-> IF price_payload.forecastPrices = Absent
                THEN EmptyDict
                ELSE PutForecasts_first(price_payload.forecastPrices.v, EmptyDict)]

\* ForecastPrices(price_payload)
ForecastPrices(price_payload) ==
    [kind |-> "ForecastPrices",
     prices |-> IF price_payload.forecastPrices = Absent
                THEN EmptyDict
                ELSE PutForecasts(price_payload.forecastPrices.v, EmptyDict)]

\* the keys of a sequence in ascending order: sorted(d.keys())
RECURSIVE Sorted(_)
Sorted(S) ==
    IF S = {} THEN <<>>
    ELSE LET least == CHOOSE x \in S : \A y \in S : x <= y
         IN  <<least>> \o Sorted(S \ {least})

\* ForecastPrices.list: None for an empty dict, else the forecasts in the
\* ascending order of their keys
forecast_list(fps) ==
    IF fps.prices = EmptyDict
    THEN PyNone
    ELSE LET keys == Sorted(DOMAIN fps.prices)
         IN  Value([i \in 1..Len(keys) |-> fps.prices[keys[i]]])

\* the payload of a price snapshot: the keys PriceData.__init__ of price.py
\* looks for, the current-price form of each before the forecast form
SnapshotPayload(ck, k, cr, r, cc, c, cp, pd) ==
    [currentPriceKWH |-> ck, priceKWH |-> k,
     currentRenewableInGrid |-> cr, renewableInGrid |-> r,
     currentPriceColor |-> cc, color |-> c,
     currentPricePeriod |-> cp, period |-> pd]

\* `if a in payload ... elif b in payload ... else None`
FirstOf(a, b) ==
    IF a # Absent THEN Value(a.v)
    ELSE IF b # Absent THEN Value(b.v)
    ELSE PyNone

\* PriceData(price_payload) of price.py: every field is assigned, None
\* when neither key is in the payload
PriceSnapshot(price_payload) ==
    [kind |-> "PriceData",
     price_kwh |-> FirstOf(price_payload.currentPriceKWH, price_payload.priceKWH),
     renewable |-> FirstOf(price_payload.currentRenewableInGrid,
                           price_payload.renewableInGrid),
     color |-> FirstOf(price_payload.currentPriceColor, price_payload.color),
     period |-> FirstOf(price_payload.currentPricePeriod, price_payload.period)]

\* round(x, 2) on amounts in thousandths; the amounts of the model are not
\* half way between two hundredths
Round2(thousandths) == ((thousandths + 5) \div 10) * 10

\* str.lower() on the colours of the model
Lower(colour) ==
    CASE colour = "RED" -> "red"
      [] colour = "Green" -> "green"
      [] OTHER -> colour

\* the accessors of PriceData: `except AttributeError` catches the call of
\* a method on None (timestamp, lower), not round(None, 2) or None / 100
snapshot_ts(pd) ==
    IF pd.period = PyNone THEN Returned(PyNone) ELSE Returned(pd.period)
snapshot_period(pd) == Returned(pd.period)
kwh(pd) ==
    IF pd.price_kwh = PyNone
    THEN Raised(BuiltinError("TypeError", 0))
    ELSE Returned(Value(Round2(pd.price_kwh.v)))
\* renewable in percent comes back in thousandths of one
renewable(pd) ==
    IF pd.renewable = PyNone
    THEN Raised(BuiltinError("TypeError", 0))
    ELSE Returned(Value(Round2((pd.renewable.v * 1000) \div 100)))
color(pd) ==
    IF pd.color = PyNone THEN Returned(PyNone)
    ELSE Returned(Value(Lower(pd.color.v)))
Accessors == {"ts", "period", "kwh", "renewable", "color"}
Read(pd, accessor) ==
    CASE accessor = "ts" -> snapshot_ts(pd)
      [] accessor = "period" -> snapshot_period(pd)
      [] accessor = "kwh" -> kwh(pd)
      [] accessor = "renewable" -> renewable(pd)
      [] accessor = "color" -> color(pd)

\* payloads a snapshot is built from: every key there or not
Opt(v) == {Absent, Present(v)}
SnapshotPayloads ==
    {SnapshotPayload(ck, k, cr, r, cc, c, cp, pd) :
        ck \in Opt(31234), k \in Opt(25678), cr \in Opt(40), r \in Opt(55),
        cc \in Opt("RED"), c \in Opt("Green"),
        cp \in Opt(HalfHour), pd \in Opt(2 * HalfHour)}

\* forecasts of a payload: three settlement instants, two prices, and one
\* forecast without "period"
ForecastSamples ==
    {ForecastPayload(Present(k * HalfHour), Present(v)) :
        k \in 1..3, v \in {25, 30}}
    \cup {ForecastPayload(Absent, Present(25))}
ForecastLists == ListsUpTo(ForecastSamples, MaxForecasts)

\* Price.__init__: __current and __forecast are not assigned
NewPrice == [current |-> Unset, forecast |-> Unset]

\* variant: update() that builds the snapshots from whatever came back
Stored_unguarded(p, reqOut) ==
    IF reqOut.kind = "raised"
    THEN p
    ELSE LET payload == IF HasData(reqOut.value) THEN reqOut.value
                        ELSE PricePayload(Absent, Absent)
         IN  [current |-> Value(CurrentPrice(payload)),
              forecast |-> Value(ForecastPrices(payload))]

\* Price.update() after api_post: the fields of the Price object
Stored(p, reqOut) ==
    IF reqOut.kind = "raised" THEN p
    ELSE IF ~HasData(reqOut.value) THEN p
    ELSE [current |-> Value(CurrentPrice(reqOut.value)),
          forecast |-> Value(ForecastPrices(reqOut.value))]

\* what the server answers a price or usage request with
ForecastRecords ==
    {ForecastPayload(Present(HalfHour), Present(25)),
     ForecastPayload(Absent, Present(25))}
PriceBodies ==
    {NoBody, EmptyObject, NoData}
    \cup {PricePayload(k, f) :
            k \in {Absent, Present(20), Present(31)},
            f \in {Absent} \cup {Present(l) :
                                   l \in ListsUpTo(ForecastRecords, MaxRecords)}}
PriceFinalResponses ==
    {HttpResponse(200, b) : b \in PriceBodies}
      \cup {HttpResponse(204, NoBody)}
      \cup {HttpResponse(st, NoBody) : st \in ErrorStatuses}
      \cup {NetworkFailure}
PriceScripts ==
    {Append(r, f) : r \in RunsUpTo(MaxRun), f \in PriceFinalResponses}

\* the transports a mapper is handed: never authenticated, logged out, and
\* signed in with its session made
SignedIn == [kind |-> "Auth", id_token |-> "idA", refresh_token |-> "rfA"]
MapperTransports ==
    {[auth |-> AuthUnset, session |-> NoSession, created |-> 0],
     [auth |-> AuthNone, session |-> NoSession, created |-> 0],
     [auth |-> SignedIn, session |-> NewSession, created |-> 1]}

\* no call on the market layer in progress
NoCall == [call |-> "none"]
MarketCall(name, out, request) == [call |-> name, out |-> out, request |-> request]

\* ---------------------------------------------------------------------
\* main.py: the AmberElectric client and its polling task
\* ---------------------------------------------------------------------
\* AmberElectric.__init__.  `protocol` is the class the client builds its
\* transport from: the shipped Protocol, or one that also has `loop` and
\* `raw`.  __price and __usage are assigned only when a username and a
\* password are at hand; `tasks` are the polling tasks the event loop
\* holds, `polls` counts the calls of poll_for_updates, `last` is what the
\* last call gave.
AmberElectric(protocol, has_credentials) ==
    [protocol |-> protocol,
     mappers |-> has_credentials,
     polling_active |-> FALSE,
     poll_complete_push |-> <<>>,
     tasks |-> <<>>,
     polls |-> 0,
     last |-> NoCall]

\* what AmberElectric.update() leaves: the Price and Market objects, its
\* outcome, and the sub-resources whose update() it awaited
ClientUpdated(p, m, out, refreshed) ==
    [price |-> p, market |-> m, out |-> out, refreshed |-> refreshed]

\* AmberElectric.update(); priceOut and usageOut are what api_post gives
\* Price.update() and Usage.update(), geo and resp are the inputs of
\* Market.update().  A client without credentials has no attribute
\* __price, which the first line reads.
AmberElectric_update(c, p, m, priceOut, usageOut, geo, resp) ==
    IF ~c.mappers
    THEN ClientUpdated(p, m, Raised(BuiltinError("AttributeError", 0)), <<>>)
    ELSE IF MapperResult(priceOut).kind = "raised"
    THEN ClientUpdated(p, m, MapperResult(priceOut), <<"price">>)
    ELSE IF MapperResult(usageOut).kind = "raised"
    THEN ClientUpdated(Stored(p, priceOut), m, MapperResult(usageOut),
                       <<"price", "usage">>)
    ELSE LET u == update(m, geo, resp) IN
         ClientUpdated(Stored(p, priceOut), u.market,
                       IF u.out.kind = "raised" THEN u.out ELSE Returned(PyNone),
                       <<"price", "usage", "market">>)

\* x occurs in the list l
InList(x, l) == \E i \in 1..Len(l) : l[i] = x

\* AmberElectric.poll_for_updates(event_receiver=...): the client after the
\* call and what the call gives.  The shipped Protocol has no attribute
\* `loop`, which the first line reads.  A task that was created has not
\* run yet: it is "pending".
Polled(c, out) == [client |-> c, out |-> out]
poll_for_updates(c, event_receiver) ==
    IF c.protocol = "Protocol"
    THEN Polled(c, Raised(BuiltinError("AttributeError", 0)))
    ELSE LET held == [c EXCEPT !.poll_complete_push =
                        IF event_receiver # None /\ ~InList(event_receiver, @)
                        THEN Append(@, event_receiver) ELSE @]
         IN  IF c.polling_active
             THEN Polled(held, Returned(PyNone))
             ELSE Polled([held EXCEPT !.tasks = Append(@, "pending")],
                         Returned(Value([task |-> Len(c.tasks) + 1])))

\* one turn of the loop of AmberElectric.__poll_for_updates in task i, from
\* its start or from its sleep to its next sleep: update(), then every
\* receiver of __poll_complete_push is called with the snapshot bundle, the
\* exception of a receiver (one of `failing`) being logged.  An exception
\* of update() or of market.postcode is the end of the task.
Cycled(c, u, state, delivered, i) ==
    [client |-> [c EXCEPT !.polling_active = TRUE, !.tasks[i] = state],
     price |-> u.price, market |-> u.market, out |-> u.out,
     refreshed |-> u.refreshed, delivered |-> delivered]
poll_cycle(c, i, p, m, priceOut, usageOut, geo, resp) ==
    LET u == AmberElectric_update(c, p, m, priceOut, usageOut, geo, resp) IN
    IF u.out.kind = "raised"
    THEN Cycled(c, u, "failed", <<>>, i)
    ELSE IF c.poll_complete_push = <<>>
    THEN Cycled(c, u, "sleeping", <<>>, i)
    ELSE IF postcode(u.market).kind = "raised"
    THEN Cycled(c, [u EXCEPT !.out = postcode(u.market)], "failed", <<>>, i)
    ELSE Cycled(c, u, "sleeping", c.poll_complete_push, i)

\* the receivers a caller registers, and what the server answers the three
\* requests of an update() with
Receivers == {"r1", "r2"}
ClientApiResults ==
    {Returned(NoBody), Returned(PricePayload(Present(20), Absent)),
     Raised(TransportError)}
ClientRawResults ==
    {Returned(NoBody),
     Returned(MarketData(
        Present(<<VariablePayload(Present(HalfHour),
                                  Present(PeriodSource(30, "MIN")),
                                  Present(110))>>),
        Present([E1 |-> Absent, B1 |-> Absent]))),
     Raised(TransportError)}

\* ---------------------------------------------------------------------
\* Initial state: a freshly constructed Protocol
\* ---------------------------------------------------------------------
InitTransport ==
    /\ username \in CredValues
    /\ password \in CredValues
    /\ auth = AuthUnset
    /\ session = NoSession
    /\ created = 0
    /\ pc = "idle"
    /\ op = "none"
    /\ args = NoArgs
    /\ before = [auth |-> AuthUnset, session |-> NoSession]
    /\ path = "none"
    /\ script = <<>>
    /\ tries = 0
    /\ now = 0
    /\ elapsed = 0
    /\ seconds = 0
    /\ sent = NotSent
    /\ lastError = NoError
    /\ outcome = NoOutcome

\* Price.__init__ assigns neither __current nor __forecast; no update() runs
InitMappers ==
    /\ price = NewPrice
    /\ apicalls = 0
    /\ client = AmberElectric("Protocol", FALSE)

\* the client has built its transport; its market object is not used
Init ==
    /\ InitTransport
    /\ market = NewMarket("Protocol", None, FALSE)
    /\ clock = 0
    /\ mresult = NoCall
    /\ InitMappers

\* ---------------------------------------------------------------------
\* Calls
\* ---------------------------------------------------------------------
\* api_get/api_post/...: run_in_executor enters backoff's retry loop
Begin(operation, endpoint, s) ==
    /\ pc' = "running"
    /\ op' = operation
    /\ before' = [auth |-> auth, session |-> session]
    /\ path' = endpoint
    /\ script' = s
    /\ tries' = 0
    /\ now' = 0
    /\ elapsed' = 0
    /\ seconds' = 0
    /\ sent' = NotSent
    /\ lastError' = NoError
    /\ outcome' = NoOutcome

\* a call that is over without having issued a request
Finish(operation, out) ==
    /\ pc' = "done"
    /\ op' = operation
    /\ before' = [auth |-> auth, session |-> session]
    /\ path' = "none"
    /\ script' = <<>>
    /\ tries' = 0
    /\ now' = 0
    /\ elapsed' = 0
    /\ seconds' = 0
    /\ sent' = NotSent
    /\ lastError' = NoError
    /\ outcome' = out

\* Protocol.api_post(...) by a domain mapper or any other caller
ApiCall(s) ==
    /\ pc = "idle"
    /\ Begin("api", "Other", s)
    /\ args' = NoArgs
    /\ UNCHANGED <<username, password, auth, session, created>>
    /\ UNCHANGED <<domain, mappers, client>>

\* Protocol.logout() by the caller
Logout ==
    /\ pc = "idle"
    /\ auth' = logout(auth, session).auth
    /\ session' = logout(auth, session).session
    /\ created' = 0
    /\ Finish("logout", Returned(NoBody))
    /\ args' = NoArgs
    /\ UNCHANGED <<username, password>>
    /\ UNCHANGED <<domain, mappers, client>>

\* auth.auth(protocol, username, password) up to its api_post; the server's
\* script is drawn once the checks have passed
AmberAuth(operation, protocol, user, pass) ==
    /\ pc = "idle"
    /\ args' = [protocol |-> protocol, username |-> user, password |-> pass]
    /\ LET err == AuthPrecheck(protocol, user, pass) IN
       IF err # NoError
       THEN /\ Finish(operation, Raised(err))
            /\ UNCHANGED <<auth, session, created>>
       ELSE /\ auth' = logout(auth, session).auth
            /\ session' = logout(auth, session).session
            /\ created' = 0
            /\ \E s \in Scripts : Begin(operation, "Authentication/SignIn", s)
    /\ UNCHANGED <<username, password>>
    /\ UNCHANGED <<domain, mappers, client>>

\* Protocol.auth()
ProtocolAuth == AmberAuth("Protocol.auth", "protocol", username, password)

\* auth.auth() called on its own
AuthCall(protocol, user, pass) == AmberAuth("auth", protocol, user, pass)

\* ---------------------------------------------------------------------
\* The retry loop of backoff.on_exception around Protocol.__request
\* ---------------------------------------------------------------------
\* one turn of the loop: the attempt takes d seconds, the jitter is j
Attempt(d, j) ==
    /\ pc = "running"
    /\ LET n == tries + 1
           r == Request(auth, path, Head(script), n)
           made == r.sent # NotSent
           b == OnException(r.out, now)
           result == CallResult(op, b.out)
       IN  /\ tries' = n
           /\ elapsed' = now
           /\ session' = GetSession(session).session
           /\ created' = created + GetSession(session).made
           /\ sent' = r.sent
           /\ lastError' = IF r.out.kind = "raised" THEN r.out.error ELSE NoError
           /\ now' = IF made THEN now + d ELSE now
           /\ script' = IF made /\ Len(script) > 1 THEN Tail(script) ELSE script
           /\ IF b.do = "sleep"
              THEN /\ pc' = "sleeping"
                   /\ seconds' = NextWait(n, j, now)
                   /\ UNCHANGED <<auth, outcome, price>>
              ELSE /\ pc' = "done"
                   /\ seconds' = 0
                   /\ outcome' = result
                   /\ price' = IF op = "Price.update"
                               THEN Stored(price, b.out) ELSE price
                   /\ auth' = IF op = "Protocol.auth" /\ result.kind = "returned"
                              THEN result.value ELSE auth
    /\ UNCHANGED <<username, password, op, args, before, path, apicalls>>
    /\ UNCHANGED <<domain, client>>

\* time.sleep(seconds) is over
Wake ==
    /\ pc = "sleeping"
    /\ now' = now + seconds
    /\ seconds' = 0
    /\ pc' = "running"
    /\ UNCHANGED <<domain, mappers, client>>
    /\ UNCHANGED <<username, password, auth, session, created, op, args,
                   before, path,
                   script, tries, elapsed, sent, lastError, outcome>>

\* the caller has the result or the exception of its call and is free to
\* make the next one
Return ==
    /\ pc = "done"
    /\ pc' = "idle"
    /\ op' = "none"
    /\ args' = NoArgs
    /\ before' = [auth |-> auth, session |-> session]
    /\ path' = "none"
    /\ script' = <<>>
    /\ tries' = 0
    /\ now' = 0
    /\ elapsed' = 0
    /\ seconds' = 0
    /\ sent' = NotSent
    /\ lastError' = NoError
    /\ outcome' = NoOutcome
    /\ apicalls' = 0
    /\ UNCHANGED <<username, password, auth, session, created, price>>
    /\ UNCHANGED <<domain, client>>

Next ==
    \/ \E s \in Scripts : ApiCall(s)
    \/ Logout
    \/ ProtocolAuth
    \/ \E p \in {None, "protocol"}, u \in CredValues, w \in CredValues :
          AuthCall(p, u, w)
    \/ \E d \in {FastReq, SlowReq}, j \in 0..JitterParts : Attempt(d, j)
    \/ Wake
    \/ Return

Spec == Init /\ [][Next]_vars

\* the worker thread that runs the retry loop keeps running, and a sleep ends
Fairness ==
    /\ WF_vars(\E d \in {FastReq, SlowReq}, j \in 0..JitterParts : Attempt(d, j))
    /\ WF_vars(Wake)

SpecFair == Spec /\ Fairness

\* ---------------------------------------------------------------------
\* The settlement periods on their own: current_period and VariablePeriod
\* ---------------------------------------------------------------------
InitPeriod ==
    /\ InitTransport
    /\ username = None
    /\ password = None
    /\ market = NewMarket("Protocol", None, FALSE)
    /\ clock \in ClockOffsets
    /\ mresult = NoCall
    /\ InitMappers

\* the caller has the value, and time passes until its next call
Tick ==
    /\ mresult # NoCall
    /\ mresult' = NoCall
    /\ clock' \in {c \in Clocks : c > clock}
    /\ UNCHANGED market
    /\ UNCHANGED <<transport, mappers, client>>

\* Market.current_period is read
CurrentPeriod ==
    /\ mresult = NoCall
    /\ mresult' = MarketCall("current_period",
                             Returned(Value(current_period(clock))), NotSent)
    /\ UNCHANGED <<market, clock>>
    /\ UNCHANGED <<transport, mappers, client>>

\* VariablePeriod(payload) is built and its period_start is read
PeriodStart(payload) ==
    /\ mresult = NoCall
    /\ LET built == VariablePeriod(payload) IN
       mresult' = [call |-> "period_start",
                   object |-> built,
                   out |-> IF built.kind = "raised" THEN built
                           ELSE Returned(Value(period_start(built.value))),
                   request |-> NotSent]
    /\ UNCHANGED <<market, clock>>
    /\ UNCHANGED <<transport, mappers, client>>

NextPeriod ==
    \/ Tick
    \/ CurrentPeriod
    \/ \E payload \in PeriodPayloads : PeriodStart(payload)

SpecPeriod == InitPeriod /\ [][NextPeriod]_vars

\* ---------------------------------------------------------------------
\* The market object: update() and the accessors
\* ---------------------------------------------------------------------
\* a Market as its constructor leaves it, at an instant of the first half
\* hour
InitMarket ==
    /\ InitTransport
    /\ username = None
    /\ password = None
    /\ market \in {NewMarket(t, p, h) : t \in Transports,
                       p \in ConfiguredPostcodes, h \in BOOLEAN}
    /\ clock = 1
    /\ mresult = NoCall
    /\ InitMappers

\* await market.update()
MarketUpdate(geo, resp) ==
    /\ mresult = NoCall
    /\ LET u == update(market, geo, resp) IN
       /\ market' = u.market
       /\ mresult' = MarketCall("update", u.out, u.request)
    /\ UNCHANGED clock
    /\ UNCHANGED <<transport, mappers, client>>

\* market.usage_price, market.export_price and market.postcode are read
UsagePrice ==
    /\ mresult = NoCall
    /\ mresult' = MarketCall("usage_price", usage_price(market, clock), NotSent)
    /\ UNCHANGED <<market, clock>>
    /\ UNCHANGED <<transport, mappers, client>>

ExportPrice ==
    /\ mresult = NoCall
    /\ mresult' = MarketCall("export_price", export_price(market, clock), NotSent)
    /\ UNCHANGED <<market, clock>>
    /\ UNCHANGED <<transport, mappers, client>>

Postcode ==
    /\ mresult = NoCall
    /\ mresult' = MarketCall("postcode", postcode(market), NotSent)
    /\ UNCHANGED <<market, clock>>
    /\ UNCHANGED <<transport, mappers, client>>

\* the caller has the value
MarketReturn ==
    /\ mresult # NoCall
    /\ mresult' = NoCall
    /\ UNCHANGED <<market, clock>>
    /\ UNCHANGED <<transport, mappers, client>>

NextMarket ==
    \/ \E geo \in GeocodeResults, resp \in RawResults : MarketUpdate(geo, resp)
    \/ UsagePrice
    \/ ExportPrice
    \/ Postcode
    \/ MarketReturn

SpecMarket == InitMarket /\ [][NextMarket]_vars

\* ---------------------------------------------------------------------
\* The Price and Usage mappers on the transport
\* ---------------------------------------------------------------------
InitPrice ==
    /\ username = "user"
    /\ password = "user"
    /\ \E t \in MapperTransports :
          /\ auth = t.auth
          /\ session = t.session
          /\ created = t.created
          /\ before = [auth |-> t.auth, session |-> t.session]
    /\ pc = "idle"
    /\ op = "none"
    /\ args = NoArgs
    /\ path = "none"
    /\ script = <<>>
    /\ tries = 0
    /\ now = 0
    /\ elapsed = 0
    /\ seconds = 0
    /\ sent = NotSent
    /\ lastError = NoError
    /\ outcome = NoOutcome
    /\ market = NewMarket("Protocol", None, FALSE)
    /\ clock = 0
    /\ mresult = NoCall
    /\ InitMappers

\* await price.update(): its api_post enters the retry loop
PriceUpdate(s) ==
    /\ pc = "idle"
    /\ Begin("Price.update", "Price/GetPriceList", s)
    /\ args' = NoArgs
    /\ apicalls' = apicalls + 1
    /\ UNCHANGED <<username, password, auth, session, created, price>>
    /\ UNCHANGED <<domain, client>>

\* await usage.update(): its api_post enters the retry loop
UsageUpdate(s) ==
    /\ pc = "idle"
    /\ Begin("Usage.update", "UsageHub/GetUsageForHub", s)
    /\ args' = NoArgs
    /\ apicalls' = apicalls + 1
    /\ UNCHANGED <<username, password, auth, session, created, price>>
    /\ UNCHANGED <<domain, client>>

NextPrice ==
    \/ \E s \in PriceScripts : PriceUpdate(s)
    \/ \E s \in PriceScripts : UsageUpdate(s)
    \/ \E d \in {FastReq, SlowReq}, j \in 0..JitterParts : Attempt(d, j)
    \/ Wake
    \/ Return

SpecPrice == InitPrice /\ [][NextPrice]_vars

\* ---------------------------------------------------------------------
\* The price snapshots on their own: PriceData and ForecastPrices
\* ---------------------------------------------------------------------
InitSnapshot ==
    /\ InitTransport
    /\ username = None
    /\ password = None
    /\ market = NewMarket("Protocol", None, FALSE)
    /\ clock = 0
    /\ mresult = NoCall
    /\ InitMappers

\* PriceData(payload) is built and one of its accessors is read
ReadSnapshot(payload, accessor) ==
    /\ mresult = NoCall
    /\ mresult' = [call |-> accessor,
                   payload |-> payload,
                   out |-> Read(PriceSnapshot(payload), accessor),
                   request |-> NotSent]
    /\ UNCHANGED <<market, clock>>
    /\ UNCHANGED <<transport, mappers, client>>

\* ForecastPrices(payload) is built and its list is read
ForecastList(forecasts) ==
    /\ mresult = NoCall
    /\ mresult' = [call |-> "forecast.list",
                   payload |-> forecasts,
                   out |-> Returned(forecast_list(ForecastPrices(
                               PricePayload(Absent, Present(forecasts))))),
                   request |-> NotSent]
    /\ UNCHANGED <<market, clock>>
    /\ UNCHANGED <<transport, mappers, client>>

NextSnapshot ==
    \/ \E payload \in SnapshotPayloads, accessor \in Accessors :
          ReadSnapshot(payload, accessor)
    \/ \E forecasts \in ForecastLists : ForecastList(forecasts)

SpecSnapshot == InitSnapshot /\ [][NextSnapshot]_vars

\* ---------------------------------------------------------------------
\* Market.update() on batches of period records
\* ---------------------------------------------------------------------
\* the records of the periods ending at the first two half hours and one
\* without "period"; the bodies prices/listprices is answered with
BatchRecords ==
    {VariablePayload(Present(k * HalfHour), Present(PeriodSource(30, "MIN")),
                     Present(110)) : k \in 1..2}
    \cup {VariablePayload(Absent, Present(PeriodSource(30, "MIN")), Present(110))}
BatchBodies ==
    {NoBody, EmptyObject, NoData}
    \cup {MarketData(Present(l), Present([E1 |-> e, B1 |-> Absent])) :
            l \in ListsUpTo(BatchRecords, MaxBatch),
            e \in {Absent, Present(StaticPayload(Present(220), Present(1)))}}
BatchResults == {Returned(b) : b \in BatchBodies} \cup {Raised(TransportError)}

\* a Market with postcode 1000 as its constructor leaves it
InitBatch ==
    /\ InitTransport
    /\ username = None
    /\ password = None
    /\ market \in {NewMarket(t, "1000", FALSE) : t \in Transports}
    /\ clock = 1
    /\ mresult = NoCall
    /\ InitMappers

\* await market.update(), the transport answering resp
UpdateWith(resp) ==
    /\ mresult = NoCall
    /\ LET u == update(market, Raised(OSMReverseFailed), resp) IN
       /\ market' = u.market
       /\ mresult' = [call |-> "update", out |-> u.out, request |-> u.request,
                      response |-> resp]
    /\ UNCHANGED clock
    /\ UNCHANGED <<transport, mappers, client>>

NextBatch ==
    \/ \E resp \in BatchResults : UpdateWith(resp)
    \/ MarketReturn

SpecBatch == InitBatch /\ [][NextBatch]_vars

\* ---------------------------------------------------------------------
\* The client: update(), poll_for_updates() and the polling tasks
\* ---------------------------------------------------------------------
\* a client as its constructor leaves it, with postcode 1000
InitClient ==
    /\ InitTransport
    /\ username = None
    /\ password = None
    /\ \E t \in Transports, has_credentials \in BOOLEAN :
          /\ client = AmberElectric(t, has_credentials)
          /\ market = NewMarket(t, "1000", FALSE)
    /\ clock = 1
    /\ mresult = NoCall
    /\ price = NewPrice
    /\ apicalls = 0

\* await client.update()
ClientUpdate(priceOut, usageOut, resp) ==
    /\ client.last = NoCall
    /\ LET u == AmberElectric_update(client, price, market, priceOut, usageOut,
                                     Raised(OSMReverseFailed), resp)
       IN  /\ price' = u.price
           /\ market' = u.market
           /\ client' = [client EXCEPT !.last =
                           [call |-> "update", out |-> u.out,
                            refreshed |-> u.refreshed]]
    /\ UNCHANGED <<clock, mresult, apicalls>>
    /\ UNCHANGED transport

\* client.poll_for_updates(event_receiver=r)
PollForUpdates(r) ==
    /\ client.last = NoCall
    /\ client.polls < MaxPolls
    /\ LET polled == poll_for_updates(client, r) IN
       client' = [polled.client EXCEPT
                    !.polls = @ + 1,
                    !.last = [call |-> "poll_for_updates", out |-> polled.out,
                              nth |-> client.polls + 1]]
    /\ UNCHANGED <<market, clock, mresult>>
    /\ UNCHANGED <<transport, mappers>>

\* the event loop runs polling task i for one turn of its loop
PollCycle(i, priceOut, usageOut, resp, failing) ==
    /\ client.last = NoCall
    /\ i \in 1..Len(client.tasks)
    /\ client.tasks[i] \in {"pending", "sleeping"}
    /\ LET cycled == poll_cycle(client, i, price, market, priceOut, usageOut,
                                Raised(OSMReverseFailed), resp)
       IN  /\ price' = cycled.price
           /\ market' = cycled.market
           /\ client' = [cycled.client EXCEPT !.last =
                           [call |-> "cycle", task |-> i, out |-> cycled.out,
                            refreshed |-> cycled.refreshed,
                            delivered |-> cycled.delivered,
                            failing |-> failing]]
    /\ UNCHANGED <<clock, mresult, apicalls>>
    /\ UNCHANGED transport

\* the caller has the value
ClientReturn ==
    /\ client.last # NoCall
    /\ client' = [client EXCEPT !.last = NoCall]
    /\ UNCHANGED <<market, clock, mresult>>
    /\ UNCHANGED <<transport, mappers>>

NextClient ==
    \/ \E priceOut \in ClientApiResults, usageOut \in ClientApiResults,
          resp \in ClientRawResults : ClientUpdate(priceOut, usageOut, resp)
    \/ \E r \in Receivers \cup {None} : PollForUpdates(r)
    \/ \E i \in 1..MaxPolls, priceOut \in ClientApiResults,
          usageOut \in ClientApiResults, resp \in ClientRawResults,
          failing \in SUBSET Receivers :
          PollCycle(i, priceOut, usageOut, resp, failing)
    \/ ClientReturn

SpecClient == InitClient /\ [][NextClient]_vars

\* ---------------------------------------------------------------------
\* Properties
\* ---------------------------------------------------------------------
IsHttp(resp) == resp.kind = "http"
\* the status code of a response, 0 where there is no response
StatusOf(resp) == IF resp.kind = "http" THEN resp.status_code ELSE 0
\* the parsed body of a response, None where there is no response
BodyOf(resp) == IF resp.kind = "http" THEN resp.body ELSE NoBody
\* the response an exception carries
ResponseOf(e) == IF e.type = "none" THEN NoResponse ELSE e.response
\* e is the error __request raised for a response with status code in lo..hi
RaisedForStatus(e, lo, hi) ==
    /\ e.type = "AmberElectricAPIError"
    /\ lo <= StatusOf(ResponseOf(e))
    /\ StatusOf(ResponseOf(e)) <= hi
AuthOps == {"Protocol.auth", "auth"}
Over == pc = "done"

\* C1: a request that is sent and is answered by a run of 503 responses and
\* then a 200 is attempted again after every 503 and ends by returning the
\* body of the 200 to the caller, unless a 503 arrives on an attempt that
\* began when the 300 seconds of max_time were already spent.
C1_Start ==
    /\ pc = "running"
    /\ tries = 0
    /\ op = "api"
    /\ auth # AuthUnset
    /\ Len(script) >= 2
    /\ StatusOf(script[Len(script)]) = 200
C1_End ==
    /\ Over
    /\ op = "api"
    /\ \/ /\ Len(script) = 1
          /\ tries >= 2
          /\ outcome = Returned(BodyOf(script[1]))
       \/ /\ outcome = Raised(lastError)
          /\ RaisedForStatus(lastError, 503, 503)
          /\ elapsed >= MaxTime
C1_RetryThenSuccess == C1_Start ~> C1_End

C1_Witness ==
    /\ Over
    /\ op = "api"
    /\ tries = 3
    /\ now < MaxTime
    /\ outcome = Returned(EmptyObject)

\* C2: the attempt that is answered with a status in 400..499 is the last
\* one of its request: the call ends in that step with the transport error
\* raised for that response, no backoff wait is started, and a request whose
\* first answer is such a status has made exactly one attempt.
C2_Fatal4xx ==
    [][(/\ pc = "running"
        /\ auth # AuthUnset
        /\ 400 <= StatusOf(Head(script))
        /\ StatusOf(Head(script)) <= 499)
       => (/\ pc' = "done"
           /\ tries' = tries + 1
           /\ seconds' = 0
           /\ lastError'.type = "AmberElectricAPIError"
           /\ ResponseOf(lastError') = Head(script)
           /\ outcome' = Raised(lastError'))]_vars

C2_Witness ==
    /\ Over
    /\ op = "api"
    /\ tries = 1
    /\ RaisedForStatus(lastError, 404, 404)
    /\ outcome = Raised(lastError)

\* C3: when the last attempt ended in a network-level failure (the HTTP
\* call raised), the request is retried under backoff while max_time is not
\* spent, and what reaches the caller is the transport error of that
\* attempt, an AmberElectricAPIError.
C3_NetworkFailureRetried ==
    (lastError.type = "AmberElectricAPIError" /\ lastError.exception = "err")
    => IF elapsed < MaxTime
       THEN pc = "sleeping" \/ pc = "running"
       ELSE Over /\ outcome = Raised(lastError)

\* C4: a 401 or 403 answer ends the request in the attempt that received
\* it, with no backoff wait, and the error the caller gets for it carries
\* the access-denied message, which the error for no other status carries.
AccessDeniedMessage == "Amber Electric API Access Denied"
C5_Start ==
    /\ pc = "running"
    /\ tries = 0
    /\ auth # AuthUnset
    /\ \A i \in 1..Len(script) : StatusOf(script[i]) \in 500..599
C5_Ended5xx ==
    /\ Over
    /\ RaisedForStatus(lastError, 500, 599)
    /\ elapsed >= MaxTime
    /\ lastError.attempt = tries
    /\ outcome = Raised(lastError)
C5_BudgetExhausted ==
    /\ C5_Start ~> C5_Ended5xx
    /\ [](RaisedForStatus(lastError, 500, 599)
            => IF elapsed >= MaxTime THEN C5_Ended5xx ELSE ~Over)

C5_Witness ==
    /\ C5_Ended5xx
    /\ tries > 2
    /\ op = "api"

\* C6: once Protocol.auth() has succeeded on a payload that carries an
\* identity token and a refresh token, the transport holds exactly those
\* tokens, and every attempt of every later request carries them as
\* Authorization and RefreshToken.
HoldsTokens(authv) ==
    /\ authv.kind = "Auth"
    /\ Truthy(authv.id_token)
    /\ Truthy(authv.refresh_token)
CarriesTokens(body) ==
    /\ body.kind = "data"
    /\ Truthy(body.idToken)
    /\ Truthy(body.refreshToken)
C6_TokensAttached ==
    /\ (/\ Over
        /\ op = "Protocol.auth"
        /\ outcome.kind = "returned"
        /\ CarriesTokens(BodyOf(script[1])))
       => /\ HoldsTokens(auth)
          /\ auth.id_token = BodyOf(script[1]).idToken
          /\ auth.refresh_token = BodyOf(script[1]).refreshToken
    /\ (op = "api" /\ tries >= 1 /\ HoldsTokens(auth))
       => /\ sent # NotSent
          /\ sent.Authorization = auth.id_token
          /\ sent.RefreshToken = auth.refresh_token

C6_Witness ==
    /\ op = "api"
    /\ tries = 2
    /\ HoldsTokens(auth)
    /\ auth.id_token = "idB"
    /\ sent.Authorization = "idB"
    /\ sent.RefreshToken = "rfA"

\* C7: an auth() that gets past its checks has emptied the transport of its
\* tokens before the sign-in request is issued: while the call runs the
\* transport holds none, and no attempt of Authentication/SignIn carries an
\* Authorization or a RefreshToken header.
C7_NoStaleToken ==
    (op \in AuthOps /\ path = "Authentication/SignIn")
    => /\ ~Over => auth = AuthNone
       /\ sent # NotSent
            => (sent.Authorization = None /\ sent.RefreshToken = None)

C7_Witness ==
    /\ op = "Protocol.auth"
    /\ HoldsTokens(before.auth)
    /\ tries = 2
    /\ sent # NotSent
    /\ sent.path = "Authentication/SignIn"
    /\ sent.Authorization = None

\* C8: auth() called without a transport handle, or with a username or a
\* password that is missing or empty, fails with AmberElectricAPIError,
\* makes no network call and leaves the tokens and the HTTP session as they
\* were.
BadArguments ==
    /\ args # NoArgs
    /\ \/ args.protocol = None
       \/ args.username \in {None, ""}
       \/ args.password \in {None, ""}
C8_ConfigurationError ==
    (op \in AuthOps /\ BadArguments)
    => /\ Over
       /\ outcome.kind = "raised"
       /\ outcome.error.type = "AmberElectricAPIError"
       /\ tries = 0
       /\ sent = NotSent
       /\ auth = before.auth
       /\ session = before.session

\* C9: when the sign-in request returns with a 2xx status and no payload
\* (a body that does not parse, or an empty one), Protocol.auth() fails with
\* the authentication error and the transport holds no tokens.
C9_NoPayload ==
    (/\ Over
     /\ op = "Protocol.auth"
     /\ tries >= 1
     /\ lastError = NoError
     /\ Falsy(BodyOf(script[1])))
    => /\ outcome.kind = "raised"
       /\ outcome.error.type = "AmberElectricAuthenticationFailed"
       /\ auth = AuthNone

\* C10: a request issued on a freshly constructed transport, before any
\* auth() or logout(), is sent to the server, without Authorization and
\* RefreshToken headers.
C10_FreshRequest ==
    (op = "api" /\ before.auth = AuthUnset /\ tries >= 1)
    => sent = Outgoing(AuthNone, path)

\* C11: a request issued while the transport holds no authentication (never
\* authenticated, or after logout()) has the transport sign in first: once
\* an attempt of it has run, the sign-in request has gone out or the
\* transport holds an Auth object.
C11_AuthInvokedFirst ==
    (/\ op = "api"
     /\ before.auth.kind # "Auth"
     /\ tries >= 1)
    => \/ auth.kind = "Auth"
       \/ (sent # NotSent /\ sent.path = "Authentication/SignIn")

\* C12: between two assignments of None to __session (by logout() or
\* auth()), whatever the number of requests and of attempts, at most one
\* session object is made; a session that is held is the only one made, it
\* carries the headers __get_session() set, and a request that found a
\* session uses that same session.
C12_OneSession ==
    /\ created <= 1
    /\ session # NoSession
         => (created = 1 /\ session.headers = session_headers)
    /\ (before.session # NoSession /\ op = "api" /\ pc # "idle")
         => session = before.session

C12_Witness ==
    /\ Over
    /\ op = "api"
    /\ before.session # NoSession
    /\ tries = 3
    /\ session = before.session
    /\ created = 1

\* C13: current_period maps every instant T to the smallest 30-minute
\* aligned instant that is greater than or equal to T: the value is
\* aligned, is not before T and is less than 30 minutes after T; an aligned
\* T maps to itself.
Aligned(t) == (t - datetime_min) % HalfHour = 0
C13_SmallestAlignedAtOrAfter ==
    mresult.call = "current_period"
    => LET p == mresult.out.value.v IN
       /\ Aligned(p)
       /\ p >= clock
       /\ p - clock < HalfHour
       /\ Aligned(clock) => p = clock

C13_Witness ==
    /\ mresult.call = "current_period"
    /\ ~Aligned(clock)
    /\ clock > HalfHour
    /\ mresult.out.value.v = 2 * HalfHour

\* C14 as stated: the current period for now is now rounded down, the
\* largest 30-minute aligned instant less than or equal to now.
C14_RoundedDown ==
    mresult.call = "current_period"
    => LET p == mresult.out.value.v IN
       /\ Aligned(p)
       /\ p <= clock
       /\ clock - p < HalfHour

\* C14: the current period for now is now rounded up to the 30-minute
\* boundary: an instant on a boundary is its own period, any other instant
\* has the boundary that follows it, 30 minutes after the largest aligned
\* instant less than or equal to now.
C14_RoundedUp ==
    mresult.call = "current_period"
    => LET p == mresult.out.value.v
           floor == clock - ((clock - datetime_min) % HalfHour)
       IN  p = IF Aligned(clock) THEN clock ELSE floor + HalfHour

C14_Witness ==
    /\ mresult.call = "current_period"
    /\ clock = HalfHour + 1
    /\ mresult.out.value.v = 2 * HalfHour

\* C15: every period record that parses has period_start = period_end - 30
\* minutes + 1 millisecond, whatever its period source is, so its start is
\* after the instant the preceding half hour ends at.
C15_PeriodStart ==
    (mresult.call = "period_start" /\ mresult.out.kind = "returned")
    => LET vp == mresult.object.value IN
       /\ mresult.out.value.v = vp.period_end - 30 * UnitMs("MIN") + 1
       /\ mresult.out.value.v > vp.period_end - HalfHour

C15_Witness ==
    /\ mresult.call = "period_start"
    /\ mresult.out.kind = "returned"
    /\ mresult.object.value.period_delta = Value(5 * UnitMs("MIN"))
    /\ mresult.object.value.period_end = HalfHour + 5 * UnitMs("MIN")
    /\ mresult.out.value.v = 5 * UnitMs("MIN") + 1

\* the record of the current period, a schedule and the three operands of
\* the price formula are all there: the market was updated, its periods
\* hold the current one with a wholesale price, and the schedule was
\* stored with a fixed price and a loss factor
HasOperands(schedule) ==
    /\ schedule # Unset
    /\ schedule.v.total_fixed_kwh_price # Unset
    /\ schedule.v.loss_factor # Unset
    /\ market.variable # Unset
    /\ current_period(clock) \in DOMAIN market.variable.v
    /\ market.variable.v[current_period(clock)].wholesale_kwh_price # PyNone
\* fixed kWh price + loss factor x wholesale kWh price of the current period
Formula(schedule) ==
    total_fixed_kwh_price(schedule.v).v
      + loss_factor(schedule.v).v
          * ExGst(market.variable.v[current_period(clock)].wholesale_kwh_price.v)

\* C16: with the E1 schedule, the record of the current period and the
\* three operands present, usage_price is the E1 fixed price plus the E1
\* loss factor times the wholesale price; with the B1 schedule, the record
\* and the three operands present, export_price is the same formula on B1.
C16_PriceFormula ==
    /\ (mresult.call = "usage_price" /\ HasOperands(market.e1))
         => mresult.out = Returned(Value(Formula(market.e1)))
    /\ (mresult.call = "export_price" /\ HasOperands(market.b1))
         => mresult.out = Returned(Value(Formula(market.b1)))

\* C17: usage_price and export_price return None, and do not raise, when
\* an operand is missing: no update yet, no record of the current period,
\* no E1 schedule (usage), no B1 schedule (export), or no fixed price, loss
\* factor or wholesale price in the payload.
C17_NoneWhenMissing ==
    /\ (mresult.call = "usage_price" /\ ~HasOperands(market.e1))
         => mresult.out = Returned(PyNone)
    /\ (mresult.call = "export_price" /\ ~HasOperands(market.b1))
         => mresult.out = Returned(PyNone)

\* C18: Market.postcode returns the postcode of the held address when that
\* address has a postcode and is in Australia, whatever postcode was
\* configured, and the configured postcode in every other case.
InAustraliaWithPostcode(address) ==
    /\ address # PyNone
    /\ address.postcode # None
    /\ address.country = "Australia"
C18_PostcodePrecedence ==
    mresult.call = "postcode"
    => IF InAustraliaWithPostcode(market.address)
       THEN mresult.out = Returned(Value(IntOf(market.address.postcode)))
       ELSE mresult.out = Returned(market.postcode)

\* C19: a call of update() that leaves the market with no address and no
\* configured postcode, or with an address that has no postcode or is not
\* in Australia, has raised the location error and has handed no request
\* to the transport; on the first call and on the later ones, with and
\* without a configured postcode.
Unlocated(m) ==
    \/ (m.address = PyNone /\ m.postcode = PyNone)
    \/ (m.address # PyNone /\ ~InAustraliaWithPostcode(m.address))
C19_LocationError ==
    (mresult.call = "update" /\ Unlocated(market))
    => /\ mresult.out.kind = "raised"
       /\ mresult.out.error.type = "NoLocationError"
       /\ mresult.request = NotSent

\* C20: the step that ends a Price.update() or a Usage.update() ends the one
\* api_post call the update has made, and when that call returned a body
\* that is absent, empty or without "data", the update returns None and the
\* current and forecast snapshots stored before are the ones stored after.
MapperOps == {"Price.update", "Usage.update"}
C20_Ends == pc = "running" /\ pc' = "done" /\ op \in MapperOps
C20_OneCallNoDataNoOp ==
    [][C20_Ends
         => /\ apicalls' = 1
            /\ (lastError' = NoError /\ ~HasData(BodyOf(Head(script))))
                 => (outcome' = Returned(PyNone) /\ price' = price)]_vars

C20_Witness ==
    /\ Over
    /\ op = "Price.update"
    /\ tries = 3
    /\ apicalls = 1
    /\ lastError = NoError
    /\ outcome = Returned(PyNone)
    /\ price.current # Unset
    /\ price.forecast # Unset
    /\ price.forecast.v.prices # EmptyDict

\* C21: the forecast list of a payload is in strictly ascending order of
\* settlement timestamp, so has one entry per timestamp at most, and its
\* entry for a timestamp is built from the last forecast of the payload
\* that has this timestamp.
LastWith(forecasts, t) ==
    CHOOSE i \in 1..Len(forecasts) :
        /\ forecasts[i].period = Present(t)
        /\ \A j \in (i + 1)..Len(forecasts) : forecasts[j].period # Present(t)
C21_SortedLastWins ==
    (mresult.call = "forecast.list" /\ mresult.out.value # PyNone)
    => LET entries == mresult.out.value.v
           forecasts == mresult.payload
       IN  /\ \A i \in 1..(Len(entries) - 1) :
                 entries[i].period.v < entries[i + 1].period.v
           /\ \A i \in 1..Len(entries) :
                 entries[i] = ForecastPrice(
                                forecasts[LastWith(forecasts, entries[i].period.v)])
           /\ \A j \in 1..Len(forecasts) :
                 forecasts[j].period # Absent
                   => \E i \in 1..Len(entries) :
                         entries[i].period.v = forecasts[j].period.v

C21_Witness ==
    /\ mresult.call = "forecast.list"
    /\ mresult.payload =
         <<ForecastPayload(Present(2 * HalfHour), Present(25)),
           ForecastPayload(Present(HalfHour), Present(25)),
           ForecastPayload(Present(2 * HalfHour), Present(30))>>
    /\ mresult.out.value # PyNone
    /\ Len(mresult.out.value.v) = 2
    /\ mresult.out.value.v[2].price_kwh = Value(30)

\* C28: an accessor of a price snapshot (ts, period, kwh, renewable,
\* color) whose source field is in the payload under neither of its keys
\* returns None and does not raise; and a forecast without a settlement
\* timestamp is not in the forecast list.
SourceAbsent(payload, accessor) ==
    CASE accessor = "ts" ->
            payload.currentPricePeriod = Absent /\ payload.period = Absent
      [] accessor = "period" ->
            payload.currentPricePeriod = Absent /\ payload.period = Absent
      [] accessor = "kwh" ->
            payload.currentPriceKWH = Absent /\ payload.priceKWH = Absent
      [] accessor = "renewable" ->
            payload.currentRenewableInGrid = Absent
              /\ payload.renewableInGrid = Absent
      [] accessor = "color" ->
            payload.currentPriceColor = Absent /\ payload.color = Absent
C28_NoneWhenAbsent ==
    /\ (mresult.call \in Accessors /\ SourceAbsent(mresult.payload, mresult.call))
         => mresult.out = Returned(PyNone)
    /\ (mresult.call = "forecast.list" /\ mresult.out.value # PyNone)
         => \A i \in 1..Len(mresult.out.value.v) :
               mresult.out.value.v[i].period # PyNone

\* C24: after Market.update() on a market whose postcode is usable, one
\* POST of prices/listprices with the postcode in 4 digits has been handed
\* to the transport, and when the call returned the market object the
\* periods of the response are stored.
UsablePostcode(m) ==
    /\ postcode(m).kind = "returned"
    /\ TruthyNumber(postcode(m).value)
C24_PostsListPrices ==
    (mresult.call = "update" /\ UsablePostcode(market))
    => /\ mresult.request = ListPrices(postcode(market).value.v)
       /\ mresult.out = Returned(Value("self")) => market.variable # Unset

\* C22: update() on a client built without credentials returns without an
\* exception after it awaited the update() of the market and of nothing
\* else; update() on a client built with credentials that returns has
\* awaited the update() of price, usage and market.
C22_RefreshesConfigured ==
    client.last.call = "update"
    => IF ~client.mappers
       THEN /\ client.last.out = Returned(PyNone)
            /\ client.last.refreshed = <<"market">>
       ELSE client.last.out.kind = "returned"
              => client.last.refreshed = <<"price", "usage", "market">>

\* C26: a client never has more than one polling task; its first call of
\* poll_for_updates() creates the task and returns it, every later call
\* returns None.
C26_OnePollingTask ==
    /\ Len(client.tasks) <= 1
    /\ client.last.call = "poll_for_updates"
         => client.last.out = IF client.last.nth = 1
                              THEN Returned(Value([task |-> 1]))
                              ELSE Returned(PyNone)

WithPeriod(records) == SelectSeq(records, LAMBDA r : r.period # Absent)
C23_FatalForRecordOnly ==
    (mresult.call = "update" /\ mresult.request # NotSent
       /\ mresult.response.kind = "returned")
    => LET body == mresult.response.value IN
       /\ ~HasData(body) => mresult.out = Returned(PyNone)
       /\ HasData(body)
            => /\ mresult.out = Returned(Value("self"))
               /\ market.variable =
                    Value(PutPeriods(
                            WithPeriod(body.data.variablePricesAndRenewables.v),
                            EmptyDict).value)

\* C25: an auth() that issued its sign-in request and raised leaves the
\* transport without tokens, whatever it held when the call began; a
\* transport without tokens gets tokens only by a Protocol.auth() that
\* returns, and no request it sends meanwhile carries an Authorization or a
\* RefreshToken header.
NoAuthHeaders(msg) ==
    IF msg = NotSent THEN TRUE
    ELSE msg.Authorization = None /\ msg.RefreshToken = None
AuthFailed(operation, position, attempts, out) ==
    /\ position = "done"
    /\ operation \in AuthOps
    /\ attempts >= 1
    /\ out.kind = "raised"
C25_FailedAuthClears ==
    [][/\ AuthFailed(op', pc', tries', outcome') => auth' = AuthNone
       /\ (auth = AuthNone /\ auth' # AuthNone)
            => (op' = "Protocol.auth" /\ pc' = "done"
                  /\ outcome'.kind = "returned")
       /\ auth' = AuthNone => NoAuthHeaders(sent')]_vars

C25_Witness ==
    /\ AuthFailed(op, pc, tries, outcome)
    /\ op = "Protocol.auth"
    /\ HoldsTokens(before.auth)
    /\ auth = AuthNone
    /\ sent # NotSent

====
